---- MODULE Spec2Model ----
(***************************************************************************)
(* The DVD (libdvdread) protocol handler of libavformat: one DVDContext    *)
(* session driven through url_open, url_read, url_seek and url_close.      *)
(* Two revisions of the handler are modelled: src/libavformat/dvd.c and    *)
(* src/unnamed/part_000.  libdvdread itself is an external library; its    *)
(* answers are taken from a disc fixture and, for sector reads, chosen per *)
(* call.                                                                   *)
(***************************************************************************)
EXTENDS Integers, Sequences, FiniteSets, TLC

\* ---------------------------------------------------------------- bounds
MaxTitles == 2      \* largest title table (nr_of_srpts) of a fixture
MaxVts    == 2      \* largest title_set_nr stored in a title table
MaxBlocks == 2      \* largest DVDFileSize() of a fixture, in sectors
MaxCloses == 2      \* number of url_close calls explored
MaxReads  == MaxBlocks + 2   \* number of url_read calls explored

\* ------------------------------------------------------ program constants
DVD_VIDEO_LB_LEN == 2048
TitleOptMin      == -1
TitleOptMax      == 99999
EIO              == 5
EFAULT           == 14
EINVAL           == 22
AVERROR_EOF      == -541478725

AVERROR(e) == -e

NULL == "NULL"
Handles == {"dvd", "probe", "vmg", "vts", "file"}
Variants == {"dvd.c", "part_000"}

VARIABLES
    variant,    \* which revision of the handler is built
    disc,       \* the disc fixture: what libdvdread answers for this disc
    reqTitle,   \* the "title" option as the caller set it
    ctx,        \* DVDContext (h->priv_data)
    lib,        \* libdvdread: state of every handle, and the release calls
    state,      \* caller's view: "unopened", "ready", "failed", "crashed"
    closes,     \* number of dvd_close calls so far
    op,         \* last handler called
    ret,        \* its return value
    openRet,    \* return value of dvd_open
    ttIndex,    \* <<i>> when dvd_open indexed tt_srpt->title[i], else <<>>
    nreads,     \* dvd_read calls since open
    ndata,      \* ... of which returned DVD_VIDEO_LB_LEN
    firstEof,   \* index (from 1) of the first call returning AVERROR_EOF
    faithful,   \* DVDReadBlocks returned 1 for every in-range request
    req         \* <<start, count, answer>> of the DVDReadBlocks call of the
                \* last dvd_read, <<>> when it made none

vars == <<variant, disc, reqTitle, ctx, lib, state, closes, op, ret, openRet,
          ttIndex, nreads, ndata, firstEof, faithful, req>>

\* --------------------------------------------------------- 32-bit ints
\* b * DVD_VIDEO_LB_LEN in a 32-bit int (two's complement wrap-around),
\* computed without leaving the 32-bit range.
MulLbLen(b) ==
    LET low  == b % 1048576
        bit  == (b \div 1048576) % 2
    IN  low * DVD_VIDEO_LB_LEN - bit * 1073741824 - bit * 1073741824

\* ------------------------------------------------------------ libdvdread
\* DVDOpen / ifoOpen / DVDOpenFile handing out handle x
Acquire(L, x) == [L EXCEPT !.h[x] = "open"]

\* ifoClose / DVDClose called with argument x; the call is logged together
\* with the state the handle was in when it was passed
Release(L, x) ==
    [h        |-> IF x \in Handles THEN [L.h EXCEPT ![x] = "closed"] ELSE L.h,
     released |-> Append(L.released,
                         [arg |-> x,
                          was |-> IF x \in Handles THEN L.h[x] ELSE "null"])]

\* number of release calls made with argument x
RECURSIVE Count(_, _)
Count(x, s) ==
    IF s = <<>> THEN 0
    ELSE (IF Head(s).arg = x THEN 1 ELSE 0) + Count(x, Tail(s))

\* ---------------------------------------------------------- disc fixtures
\* title tables of 0..MaxTitles entries; consecutive titles lie in
\* consecutive title sets, so that the entries of a table differ
TitleTables ==
    {[i \in 1..n |-> ((i - 1) % MaxVts) + 1] : n \in 0..MaxTitles}

\* <<nr_of_cells, nr_of_programs>> of the program chain of a fixture
PgcShapes == {<<1, 1>>, <<3, 2>>}

\* answers of DVDFileSize: an error, small files, and a title file of 2 GiB
FileSizes == {-1} \cup 0..MaxBlocks \cup {1048576}

NoDisc ==
    [DVDOpen |-> FALSE, probe |-> FALSE, vmg |-> "null", table |-> <<>>,
     vts |-> "null", file |-> FALSE, pgc |-> "null",
     cells |-> 0, chapters |-> 0, size |-> 0]

\* Fixtures: the answers after the first failing library call are fixed,
\* except that every title table is combined with every later answer.
Discs ==
    LET d1 == [NoDisc EXCEPT !.DVDOpen = TRUE]
        d2 == [d1 EXCEPT !.probe = TRUE]
    IN  {NoDisc, d1}
        \cup {[d2 EXCEPT !.vmg = v] : v \in {"null", "no_mat", "no_tt"}}
        \cup {[d2 EXCEPT !.vmg = "ok", !.table = t, !.vts = v] :
                 t \in TitleTables, v \in {"null", "no_mat", "empty"}}
        \cup {[d2 EXCEPT !.vmg = "ok", !.table = t, !.vts = "ok"] :
                 t \in TitleTables}
        \cup {[d2 EXCEPT !.vmg = "ok", !.table = t, !.vts = "ok",
                         !.file = TRUE, !.pgc = p] :
                 t \in TitleTables, p \in {"null", "no_cells"}}
        \cup {[d2 EXCEPT !.vmg = "ok", !.table = t, !.vts = "ok",
                         !.file = TRUE, !.pgc = "ok", !.cells = c[1],
                         !.chapters = c[2], !.size = s] :
                 t \in TitleTables, s \in FileSizes,
                 c \in PgcShapes}

TitleOptions == (TitleOptMin..(MaxTitles + 1)) \cup {TitleOptMax}

\* ------------------------------------------------------------- dvd_open
\* (variation: the test lets an empty title table through)
NoUsableTitles_negative(num_title_idx) == num_title_idx < 0

\* num_title_idx < 1
NoUsableTitles(num_title_idx) == num_title_idx < 1

\* the test that switches the selection to title 1
TitleOutOfBounds(v, title, num_title_idx) ==
    IF v = "dvd.c" THEN title < 1 \/ title > num_title_idx
                   ELSE title < 1

\* tt_srpt->title[i].title_set_nr; outside the table the read is undefined
\* and yields whatever the build finds there (g)
TitleSetNr(table, i, g) ==
    IF i \in 0..(Len(table) - 1) THEN table[i + 1] ELSE g

\* check_disc_info: ifoOpen(dvd->dvd, 0), the handle is kept nowhere
check_disc_info(L, d) ==
    IF d.probe THEN [lib |-> Acquire(L, "probe"), ret |-> 0]
               ELSE [lib |-> L, ret |-> -1]

\* what dvd_open leaves behind when it returns
OpenReturn(c, L, r, i) ==
    [ctx |-> c, lib |-> L, ret |-> r, idx |-> i, crash |-> FALSE]

\* from DVDOpenFile to the end of dvd_open
OpenFile(v, c, L, d, i) ==
    LET c1 == [c EXCEPT !.file = IF d.file THEN "file" ELSE NULL]
        L1 == IF d.file THEN Acquire(L, "file") ELSE L
    IN  IF c1.file = NULL THEN OpenReturn(c1, L1, AVERROR(EIO), i)
        ELSE IF v = "dvd.c" /\ d.pgc # "ok"
             THEN OpenReturn(c1, L1, AVERROR(EIO), i)
        ELSE LET c2 == IF v = "dvd.c"
                       THEN [c1 EXCEPT !.cells = d.cells,
                                       !.chapters = d.chapters]
                       ELSE c1
                 c3 == [c2 EXCEPT !.blocks = d.size,
                                  !.size = MulLbLen(d.size),
                                  !.offset = 0]
             IN  OpenReturn(c3, L1, 0, i)

\* from "load title set IFO" on (dvd.c only) to the end of dvd_open
OpenTitleSet(v, c, L, d, i) ==
    IF v = "dvd.c"
    THEN LET c1 == [c EXCEPT !.vts = IF d.vts = "null" THEN NULL ELSE "vts"]
             L1 == IF d.vts = "null" THEN L ELSE Acquire(L, "vts")
         IN  IF c1.vts = NULL \/ d.vts = "no_mat"
             THEN OpenReturn(c1, L1, AVERROR(EIO), i)
             ELSE IF d.vts = "empty"
             THEN OpenReturn(c1, L1, AVERROR(EIO), i)
             ELSE OpenFile(v, c1, L1, d, i)
    ELSE OpenFile(v, c, L, d, i)

\* from "load title list" to the end of dvd_open
OpenTitle(v, c, L, d, g, segv) ==
    LET num_title_idx == Len(d.table)
    IN  IF NoUsableTitles(num_title_idx)
        THEN OpenReturn(c, L, AVERROR(EIO), <<>>)
        ELSE LET c1 == IF TitleOutOfBounds(v, c.title, num_title_idx)
                       THEN [c EXCEPT !.title = 1] ELSE c
                 i  == c1.title - 1
                 c2 == [c1 EXCEPT
                          !.title_set = TitleSetNr(d.table, i, g)]
             IN  IF i \notin 0..(num_title_idx - 1) /\ segv
                 THEN [ctx |-> c1, lib |-> L, ret |-> 0, idx |-> <<i>>,
                       crash |-> TRUE]
                 ELSE OpenTitleSet(v, c2, L, d, <<i>>)

\* dvd_open of revision v on context c, library L and disc d
dvd_open(v, c, L, d, g, segv) ==
    LET c1 == [c EXCEPT !.dvd = IF d.DVDOpen THEN "dvd" ELSE NULL]
        L1 == IF d.DVDOpen THEN Acquire(L, "dvd") ELSE L
    IN  IF c1.dvd = NULL THEN OpenReturn(c1, L1, AVERROR(EIO), <<>>)
        ELSE LET p == check_disc_info(L1, d)
             IN  IF p.ret < 0 THEN OpenReturn(c1, p.lib, AVERROR(EIO), <<>>)
                 ELSE LET c2 == [c1 EXCEPT !.vmg = IF d.vmg = "null"
                                                   THEN NULL ELSE "vmg"]
                          L2 == IF d.vmg = "null" THEN p.lib
                                ELSE Acquire(p.lib, "vmg")
                      IN  IF c2.vmg = NULL \/ d.vmg = "no_mat"
                             \/ d.vmg = "no_tt"
                          THEN OpenReturn(c2, L2, AVERROR(EIO), <<>>)
                          ELSE OpenTitle(v, c2, L2, d, g, segv)

\* ------------------------------------------------------------- dvd_read
\* (variation: the end is recognised only at offset = blocks)
dvd_read_exact_end(c, r) ==
    IF c.dvd = NULL
    THEN [ctx |-> c, ret |-> AVERROR(EFAULT), req |-> <<>>]
    ELSE LET c1  == [c EXCEPT !.offset = c.offset + 1]
             len == r * DVD_VIDEO_LB_LEN
         IN  [ctx |-> c1,
              ret |-> IF len = 0 \/ c1.offset = c1.blocks
                      THEN AVERROR_EOF ELSE len,
              req |-> <<c.offset, 1, r>>]

\* (variation: the answer of DVDReadBlocks is stored in dvd->blocks)
dvd_read_into_field(c, r) ==
    IF c.dvd = NULL
    THEN [ctx |-> c, ret |-> AVERROR(EFAULT), req |-> <<>>]
    ELSE LET c1  == [c EXCEPT !.offset = c.offset + 1, !.blocks = r]
             len == r * DVD_VIDEO_LB_LEN
         IN  [ctx |-> c1,
              ret |-> IF len = 0 \/ c1.offset >= c1.blocks
                      THEN AVERROR_EOF ELSE len,
              req |-> <<c.offset, 1, r>>]

\* dvd_read on context c when DVDReadBlocks answers r
dvd_read(c, r) ==
    IF c.dvd = NULL
    THEN [ctx |-> c, ret |-> AVERROR(EFAULT), req |-> <<>>]
    ELSE LET blocks == r
             c1     == [c EXCEPT !.offset = c.offset + 1]
             len    == blocks * DVD_VIDEO_LB_LEN
         IN  [ctx |-> c1,
              ret |-> IF len = 0 \/ c1.offset >= c1.blocks
                      THEN AVERROR_EOF ELSE len,
              req |-> <<c.offset, 1, r>>]

\* ------------------------------------------------------------- dvd_seek
\* (variation: SEEK_SET is carried out instead of refused)
dvd_seek_set(c, pos, whence) ==
    IF c.dvd = NULL
    THEN [ctx |-> c, ret |-> AVERROR(EFAULT)]
    ELSE IF whence = 0
    THEN [ctx |-> [c EXCEPT !.offset = pos \div DVD_VIDEO_LB_LEN],
          ret |-> pos]
    ELSE [ctx |-> c, ret |-> AVERROR(EINVAL)]

dvd_seek(c, pos, whence) ==
    IF c.dvd = NULL
    THEN [ctx |-> c, ret |-> AVERROR(EFAULT)]
    ELSE [ctx |-> c, ret |-> AVERROR(EINVAL)]

\* ------------------------------------------------------------ dvd_close
\* (variation: the handles are released without the null tests)
dvd_close_unguarded(c, L) ==
    Release(Release(Release(L, c.vmg), c.vts), c.dvd)

dvd_close(c, L) ==
    LET L1 == IF c.vmg # NULL THEN Release(L, c.vmg) ELSE L
        L2 == IF c.vts # NULL THEN Release(L1, c.vts) ELSE L1
        L3 == IF c.dvd # NULL THEN Release(L2, c.dvd) ELSE L2
    IN  L3

\* a release call of this dvd_close passes a handle already released
DoubleRelease(c, L) ==
    \E x \in {c.vmg, c.vts, c.dvd} : x # NULL /\ L.h[x] = "closed"

\* ------------------------------------------------------------ the system
SeekPositions == {0, DVD_VIDEO_LB_LEN}
Whences       == {0, 1, 2, 65536}    \* SEEK_SET, SEEK_CUR, SEEK_END, AVSEEK_SIZE
ReadAnswers   == {-1, 0, 1}          \* DVDReadBlocks: error, nothing, one block

\* the title file handle handed to DVDReadBlocks is live
FileValid(c, L) ==
    /\ c.file # NULL /\ L.h[c.file] = "open"
    /\ c.dvd # NULL /\ L.h[c.dvd] = "open"

\* the context as the framework allocates it: zeroed, options applied
Init ==
    /\ variant \in Variants
    /\ disc \in Discs
    /\ reqTitle \in TitleOptions
    /\ ctx = [dvd |-> NULL, vmg |-> NULL, vts |-> NULL, file |-> NULL,
              blocks |-> 0, cells |-> 0, chapters |-> 0, size |-> 0,
              offset |-> 0, title_set |-> 0, title |-> reqTitle]
    /\ lib = [h |-> [x \in Handles |-> "none"], released |-> <<>>]
    /\ state = "unopened"
    /\ closes = 0
    /\ op = "none"
    /\ ret = 0
    /\ openRet = 0
    /\ ttIndex = <<>>
    /\ nreads = 0
    /\ ndata = 0
    /\ firstEof = 0
    /\ faithful = TRUE
    /\ req = <<>>

Open ==
    /\ state = "unopened"
    /\ \E g \in 0..MaxVts, segv \in BOOLEAN :
         LET r == dvd_open(variant, ctx, lib, disc, g, segv)
         IN  /\ ctx' = r.ctx
             /\ lib' = r.lib
             /\ ttIndex' = r.idx
             /\ ret' = r.ret
             /\ openRet' = r.ret
             /\ state' = IF r.crash THEN "crashed"
                         ELSE IF r.ret < 0 THEN "failed" ELSE "ready"
    /\ op' = "open"
    /\ UNCHANGED <<variant, disc, reqTitle, closes, nreads, ndata, firstEof,
                   faithful, req>>

Read ==
    /\ state \in {"ready", "failed"}
    /\ nreads < MaxReads
    /\ \E a \in ReadAnswers, segv \in BOOLEAN :
         LET r == dvd_read(ctx, a)
             called == r.req # <<>>
         IN  /\ ctx' = r.ctx
             /\ ret' = r.ret
             /\ req' = r.req
             /\ state' = IF called /\ ~FileValid(ctx, lib) /\ segv
                         THEN "crashed" ELSE state
             /\ nreads' = nreads + 1
             /\ ndata' = ndata + (IF r.ret = DVD_VIDEO_LB_LEN THEN 1 ELSE 0)
             /\ firstEof' = IF firstEof = 0 /\ r.ret = AVERROR_EOF
                            THEN nreads + 1 ELSE firstEof
             /\ faithful' = (faithful /\
                             (called /\ ctx.offset \in 0..(disc.size - 1)
                                => a = 1))
    /\ op' = "read"
    /\ UNCHANGED <<variant, disc, reqTitle, lib, closes, openRet, ttIndex>>

Seek ==
    /\ state \in {"ready", "failed"}
    /\ \E pos \in SeekPositions, whence \in Whences :
         LET r == dvd_seek(ctx, pos, whence)
         IN  /\ ctx' = r.ctx
             /\ ret' = r.ret
    /\ op' = "seek"
    /\ UNCHANGED <<variant, disc, reqTitle, lib, state, closes, openRet,
                   ttIndex, nreads, ndata, firstEof, faithful, req>>

Close ==
    /\ state \in {"ready", "failed"}
    /\ closes < MaxCloses
    /\ lib' = dvd_close(ctx, lib)
    /\ closes' = closes + 1
    /\ \E segv \in BOOLEAN :
         state' = IF DoubleRelease(ctx, lib) /\ segv THEN "crashed" ELSE state
    /\ op' = "close"
    /\ ret' = 0
    /\ UNCHANGED <<variant, disc, reqTitle, ctx, openRet, ttIndex, nreads,
                   ndata, firstEof, faithful, req>>

Next == Open \/ Read \/ Seek \/ Close

Spec == Init /\ [][Next]_vars

TypeOK ==
    /\ variant \in Variants
    /\ disc \in Discs
    /\ reqTitle \in TitleOptions
    /\ state \in {"unopened", "ready", "failed", "crashed"}
    /\ closes \in 0..MaxCloses
    /\ ctx.offset \in 0..MaxReads
    /\ nreads \in 0..MaxReads
    /\ \A x \in Handles : lib.h[x] \in {"none", "open", "closed"}

\* ================================================================ claims
Min(a, b) == IF a <= b THEN a ELSE b

\* the session was opened successfully and has not been closed
IsOpen == state = "ready" /\ closes = 0

\* C1: on an open session over a title file of B >= 0 sectors whose
\* in-range sector requests all return one sector, calls 1..B of dvd_read
\* return 2048 and call B+1 is the first to return end-of-stream.
C1_ExactlyBReads ==
    (IsOpen /\ disc.size >= 0 /\ faithful) =>
        /\ ndata = Min(nreads, disc.size)
        /\ (nreads <= disc.size => firstEof = 0)
        /\ (nreads > disc.size => firstEof = disc.size + 1)

\* C2: on an open session (title file of B >= 0 sectors) the cursor stays
\* within 0..blocks after any number of reads and seeks.
C2_CursorInRange ==
    (IsOpen /\ ctx.blocks >= 0) =>
        (0 <= ctx.offset /\ ctx.offset <= ctx.blocks)

\* C3: on an open session dvd_read never asks DVDReadBlocks for a sector
\* whose start index is at or beyond blocks.
C3_NoRequestBeyondEnd ==
    (IsOpen /\ ctx.blocks >= 0 /\ req # <<>>) => req[1] < ctx.blocks

\* C4: whenever dvd_open selects a title on a disc of N >= 1 titles, the
\* selected title is the requested one if it lies in 1..N and 1 otherwise,
\* and the title set is read from table entry (selected title - 1).
C4_ClampPolicy ==
    (ttIndex # <<>> /\ Len(disc.table) >= 1) =>
        LET eff == IF 1 <= reqTitle /\ reqTitle <= Len(disc.table)
                   THEN reqTitle ELSE 1
        IN  /\ ctx.title = eff
            /\ ttIndex = <<eff - 1>>
            /\ ctx.title_set = disc.table[eff]

\* C5: at the moment dvd_open returns an error, no handle it acquired from
\* the library is still open.
C5_FailedOpenTornDown ==
    (op = "open" /\ state = "failed") =>
        \A x \in Handles : lib.h[x] # "open"

\* C6: opening a disc whose title table has no entry fails with EIO, acquires
\* neither title-set info nor title file, and never becomes a ready session.
C6_ZeroTitlesFails ==
    (state # "unopened" /\ disc.vmg = "ok" /\ Len(disc.table) < 1) =>
        /\ state # "ready"
        /\ openRet = AVERROR(EIO)
        /\ ttIndex = <<>>
        /\ ctx.vts = NULL /\ lib.h["vts"] = "none"
        /\ ctx.file = NULL /\ lib.h["file"] = "none"

\* an open of a disc with an empty title table, whose title set and title
\* file could have been opened, has returned
C6_Witness ==
    /\ op = "open" /\ state = "failed"
    /\ disc.vmg = "ok" /\ Len(disc.table) = 0
    /\ disc.vts = "ok" /\ disc.file
    /\ lib.h["vmg"] = "open"

\* C7: after a successful open and one close, every handle the library
\* handed out has been released exactly once.
C7_AllReleasedOnce ==
    (state = "ready" /\ closes = 1) =>
        \A x \in Handles :
            lib.h[x] # "none" =>
                (lib.h[x] = "closed" /\ Count(x, lib.released) = 1)

\* C8: across two dvd_close calls no owned handle is passed to its release
\* function more than once.
C8_NoDoubleRelease ==
    (closes = 2) =>
        \A x \in {"vmg", "vts", "dvd"} : Count(x, lib.released) <= 1

\* C9: the dvd_close that follows a failed dvd_open passes to the release
\* functions only handles that were acquired and are still open: never a
\* null handle, never a handle a second time.
C9_CloseAfterFailedOpen ==
    (openRet < 0 /\ closes = 1) =>
        /\ \A k \in 1..Len(lib.released) :
              /\ lib.released[k].arg # NULL
              /\ lib.released[k].was = "open"
        /\ \A x \in Handles : Count(x, lib.released) <= 1

\* a close after an open that failed with some handles acquired (disc,
\* volume info) and others not (title-set info)
C9_Witness ==
    /\ openRet < 0 /\ closes = 1 /\ op = "close"
    /\ ctx.dvd # NULL /\ ctx.vmg # NULL /\ ctx.vts = NULL
    /\ Len(lib.released) = 2

\* C10 (as stated): every dvd_seek, in whatever state of the session,
\* returns AVERROR(EINVAL) and leaves the session as it was.
C10_SeekAlwaysInvalidArgument ==
    [][op' = "seek" =>
          /\ ret' = AVERROR(EINVAL)
          /\ ctx' = ctx /\ lib' = lib /\ state' = state]_vars

\* C10 (amended): every dvd_seek fails and leaves the session as it was;
\* the error is AVERROR(EINVAL) when the context holds a disc handle and
\* AVERROR(EFAULT) when it holds none.
C10_SeekFailsSessionKept ==
    [][op' = "seek" =>
          /\ ret' = IF ctx.dvd = NULL THEN AVERROR(EFAULT)
                                      ELSE AVERROR(EINVAL)
          /\ ret' < 0
          /\ ctx' = ctx /\ lib' = lib /\ state' = state
          /\ <<nreads, ndata, firstEof, faithful, req>>' =
             <<nreads, ndata, firstEof, faithful, req>>]_vars

\* a seek on an open session that has already served a read
C10_Witness ==
    /\ op = "seek" /\ ret = AVERROR(EINVAL)
    /\ IsOpen /\ nreads > 0 /\ ctx.offset > 0

\* C11: for a title file of B >= 0 sectors, dvd->size is B * 2048 exactly.
C11_SizeExact ==
    (state = "ready" /\ disc.size >= 0) =>
        (ctx.size % DVD_VIDEO_LB_LEN = 0
         /\ ctx.size \div DVD_VIDEO_LB_LEN = disc.size)

\* C12: once a dvd_read on an open session has returned end-of-stream with
\* the cursor at or past blocks, every later dvd_read on the open session
\* returns end-of-stream too, whatever DVDReadBlocks answers.
C12_EndOfStreamSticky ==
    [][(IsOpen /\ nreads > 0 /\ ctx.offset >= ctx.blocks /\ op' = "read")
          => (ret' = AVERROR_EOF /\ state' = "ready")]_vars

\* a read made after the read that reported the end of a title file of at
\* least one sector
C12_Witness ==
    /\ IsOpen /\ op = "read" /\ ret = AVERROR_EOF
    /\ ctx.blocks >= 1 /\ ctx.offset > ctx.blocks
    /\ firstEof = ctx.blocks /\ nreads = ctx.blocks + 1

\* C13: a dvd_read on an open session asks for exactly one sector at the
\* cursor, advances the cursor by one whatever the answer, and returns
\* end-of-stream if the answer was zero sectors or the advanced cursor is at
\* or past blocks, and 2048 otherwise.
C13_ReadStep ==
    [][(IsOpen /\ op' = "read") =>
          /\ Len(req') = 3 /\ req'[1] = ctx.offset /\ req'[2] = 1
          /\ ctx'.offset = ctx.offset + 1
          /\ ret' = IF req'[3] = 0 \/ ctx'.offset >= ctx.blocks
                    THEN AVERROR_EOF ELSE DVD_VIDEO_LB_LEN]_vars

\* C14: when DVDReadBlocks reports an error before the cursor reaches
\* blocks, dvd_read returns end-of-stream and the session stays as it was
\* apart from the cursor.
C14_ReadErrorIsEndOfStream ==
    [][(IsOpen /\ op' = "read" /\ req'[3] < 0
        /\ ctx.offset + 1 < ctx.blocks)
          => /\ ret' = AVERROR_EOF
             /\ state' = "ready" /\ lib' = lib
             /\ ctx' = [ctx EXCEPT !.offset = ctx.offset + 1]]_vars

\* position of a handle in the release order title-set info, volume info,
\* disc handle
ReleaseRank(x) ==
    IF x = "vts" THEN 1 ELSE IF x = "vmg" THEN 2 ELSE 3

\* C15: the dvd_close of a ready session releases title-set info before
\* volume info before the disc handle, and no navigation handle opened on
\* the disc is still open once the disc handle has been released.
C15_ReleaseOrder ==
    (state = "ready" /\ closes = 1) =>
        /\ \A i, j \in 1..Len(lib.released) :
              i < j => ReleaseRank(lib.released[i].arg)
                         < ReleaseRank(lib.released[j].arg)
        /\ lib.h["dvd"] = "closed" =>
              \A x \in {"probe", "vmg", "vts"} : lib.h[x] # "open"

\* C16: when dvd_open has succeeded, the context holds a disc handle, volume
\* info, title-set info and a title file, all non-null and open.
C16_ReadyHoldsFourHandles ==
    (state = "ready" /\ op = "open") =>
        /\ ctx.dvd # NULL /\ lib.h["dvd"] = "open"
        /\ ctx.vmg # NULL /\ lib.h["vmg"] = "open"
        /\ ctx.vts # NULL /\ lib.h["vts"] = "open"
        /\ ctx.file # NULL /\ lib.h["file"] = "open"

\* C17: after a successful dvd_open, a dvd_read changes no field of the
\* context but offset and a dvd_seek changes no field at all; neither
\* touches a handle of the library.
C17_OnlyCursorChanges ==
    [][(state = "ready") =>
          /\ op' = "read" =>
                (ctx' = [ctx EXCEPT !.offset = ctx'.offset] /\ lib' = lib)
          /\ op' = "seek" => (ctx' = ctx /\ lib' = lib)]_vars

\* a read on an open session that selected title 2 in title set 2 has
\* moved the cursor
C17_Witness ==
    /\ IsOpen /\ op = "read" /\ ret = DVD_VIDEO_LB_LEN
    /\ ctx.offset = 1 /\ ctx.title = 2 /\ ctx.title_set = 2
    /\ ctx.blocks = 2 /\ ctx.size = 4096

\* C18: whenever dvd_open indexes the title table, the index title - 1 lies
\* within 0 .. titleCount - 1.
C18_IndexInTable ==
    (ttIndex # <<>>) =>
        (0 <= ttIndex[1] /\ ttIndex[1] < Len(disc.table))

\* C19: a dvd_read that calls DVDReadBlocks passes a title file handle that
\* is acquired and not released, on a disc handle that is acquired and not
\* released; a dvd_read that does not call it returns AVERROR(EFAULT) and
\* leaves the context as it was.
C19_ReadsOnlyLiveFile ==
    [][op' = "read" =>
          /\ req' # <<>> => FileValid(ctx, lib)
          /\ req' = <<>> => (ret' = AVERROR(EFAULT) /\ ctx' = ctx)]_vars

====
